---- MODULE Spec2Model ----
(***************************************************************************)
(* Model of yt_Xray/Xray_field.py: the emissivity data-file lookup, the    *)
(* XrayEmissivityIntegrator (table load and band integration) and          *)
(* calculate_xray_emissivity.                                              *)
(*                                                                         *)
(* Numbers.  A float is a pair <<n, d>>: the rational n/d when d > 0 (kept *)
(* in lowest terms), NaN = <<0,0>>, +inf = <<1,0>>, -inf = <<-1,0>>.       *)
(* Energies are in keV.  A base-10 logarithm is kept symbolically as a     *)
(* record [kind, arg] (see Log10).  Python indices are kept 0-based and    *)
(* shifted by one where a TLA+ sequence is indexed.                        *)
(***************************************************************************)
EXTENDS Integers, Sequences, FiniteSets, TLC

VARIABLES
    files,      \* the paths that exist on disk, each <<directory, file name>>
    dirs,       \* the directories that exist on disk
    h5,         \* the datasets of the emissivity file (dataset name -> array)
    si,         \* the XrayEmissivityIntegrator object (si.live = FALSE: none yet)
    built,      \* si as it was when its constructor returned
    ret         \* record of the last call: arguments, locals, outcome

vars == <<files, dirs, h5, si, built, ret>>

-----------------------------------------------------------------------------
(* Bounds of the model                                                     *)

MaxRedshift == 1
MaxFiles == 2

-----------------------------------------------------------------------------
(* Float arithmetic                                                        *)

Abs(x) == IF x < 0 THEN -x ELSE x

RECURSIVE GCD(_, _)
GCD(a, b) == IF b = 0 THEN a ELSE GCD(b, a % b)

LCM(a, b) == (a \div GCD(a, b)) * b

Norm(n, d) ==
    LET g == GCD(Abs(n), Abs(d))
        s == IF d < 0 THEN -1 ELSE 1
    IN  <<(s * n) \div g, (s * d) \div g>>

I(n) == <<n, 1>>
FNaN == <<0, 0>>
FInf == <<1, 0>>
FNegInf == <<-1, 0>>
FZero == <<0, 1>>

IsNaN(x) == x[2] = 0 /\ x[1] = 0
IsInf(x) == x[2] = 0 /\ x[1] # 0
IsFin(x) == x[2] # 0
Sgn(x) == IF x[1] > 0 THEN 1 ELSE IF x[1] < 0 THEN -1 ELSE 0
InfOf(s) == IF s > 0 THEN FInf ELSE FNegInf

FNeg(a) == <<-a[1], a[2]>>

FAdd(a, b) ==
    IF IsNaN(a) \/ IsNaN(b) THEN FNaN
    ELSE IF IsInf(a) THEN (IF IsInf(b) /\ Sgn(b) # Sgn(a) THEN FNaN ELSE a)
    ELSE IF IsInf(b) THEN b
    ELSE LET l == LCM(a[2], b[2])
         IN  Norm(a[1] * (l \div a[2]) + b[1] * (l \div b[2]), l)

FSub(a, b) == FAdd(a, FNeg(b))

FMul(a, b) ==
    IF IsNaN(a) \/ IsNaN(b) THEN FNaN
    ELSE IF IsInf(a) \/ IsInf(b)
         THEN (IF Sgn(a) = 0 \/ Sgn(b) = 0 THEN FNaN ELSE InfOf(Sgn(a) * Sgn(b)))
    ELSE LET x == Norm(a[1], b[2])
             y == Norm(b[1], a[2])
         IN  Norm(x[1] * y[1], x[2] * y[2])

FDiv(a, b) ==
    IF IsNaN(a) \/ IsNaN(b) THEN FNaN
    ELSE IF IsInf(b) THEN (IF IsInf(a) THEN FNaN ELSE FZero)
    ELSE IF Sgn(b) = 0 THEN (IF Sgn(a) = 0 THEN FNaN ELSE InfOf(Sgn(a)))
    ELSE IF IsInf(a) THEN InfOf(Sgn(a) * Sgn(b))
    ELSE FMul(a, Norm(b[2], b[1]))

FLess(a, b) ==
    IF IsNaN(a) \/ IsNaN(b) THEN FALSE
    ELSE IF IsInf(a) THEN Sgn(a) < 0 /\ ~(IsInf(b) /\ Sgn(b) < 0)
    ELSE IF IsInf(b) THEN Sgn(b) > 0
    ELSE a[1] * b[2] < b[1] * a[2]

FLeq(a, b) == ~IsNaN(a) /\ ~IsNaN(b) /\ ~FLess(b, a)

RECURSIVE FSum(_)
FSum(s) == IF s = <<>> THEN FZero ELSE FAdd(Head(s), FSum(Tail(s)))

Min(a, b) == IF a < b THEN a ELSE b
Max(a, b) == IF a > b THEN a ELSE b

(* np.log10, kept symbolic: log10 of a positive x is [kind "fin", arg x],  *)
(* of 0 it is -inf, of a negative number or NaN it is NaN.                 *)
Log10(x) ==
    IF IsNaN(x) \/ Sgn(x) < 0 THEN [kind |-> "nan", arg |-> FZero]
    ELSE IF Sgn(x) = 0 THEN [kind |-> "-inf", arg |-> FZero]
    ELSE IF IsInf(x) THEN [kind |-> "inf", arg |-> FZero]
    ELSE [kind |-> "fin", arg |-> x]

(* np.power(10, l) of a value produced by Log10 *)
Power10(l) ==
    CASE l.kind = "nan" -> FNaN
      [] l.kind = "-inf" -> FZero
      [] l.kind = "inf" -> FInf
      [] OTHER -> l.arg

-----------------------------------------------------------------------------
(* The emissivity tables the model loads.  A table file holds the datasets *)
(* log_T, emissivity_primordial and E, and optionally log_nH and           *)
(* emissivity_metals.  An emissivity array maps a grid cell (<<t>> for a   *)
(* one-dimensional table, <<n, t>> for a two-dimensional one) to the       *)
(* sequence of its per-bin values (the last axis).                         *)

Ints(s) == [k \in 1..Len(s) |-> I(s[k])]

OneBinTable ==
    [log_T |-> Ints(<<6, 7>>),
     E |-> Ints(<<2000, 4000>>),
     emissivity_primordial |-> (<<1>> :> Ints(<<3>>)) @@ (<<2>> :> Ints(<<5>>)),
     emissivity_metals |-> (<<1>> :> Ints(<<1>>)) @@ (<<2>> :> Ints(<<0>>))]

TwoBinTable ==
    [log_T |-> Ints(<<6, 7>>),
     log_nH |-> Ints(<<-1, 0>>),
     E |-> Ints(<<2000, 3000, 6000>>),
     emissivity_primordial |->
         [c \in {<<n, t>> : n \in 1..2, t \in 1..2} |-> Ints(<<c[1] + c[2], 2 * c[2]>>)],
     emissivity_metals |->
         [c \in {<<n, t>> : n \in 1..2, t \in 1..2} |-> Ints(<<c[2], c[1]>>)]]

ThreeBinTable ==
    [log_T |-> Ints(<<6, 7>>),
     E |-> Ints(<<2000, 3000, 5000, 6000>>),
     emissivity_primordial |-> (<<1>> :> Ints(<<1, 2, 3>>)) @@ (<<2>> :> Ints(<<4, 0, 2>>)),
     emissivity_metals |-> (<<1>> :> Ints(<<2, 1, 1>>)) @@ (<<2>> :> Ints(<<1, 3, 0>>))]

WithoutMetals(t) == [k \in DOMAIN t \ {"emissivity_metals"} |-> t[k]]

Tables == {OneBinTable, TwoBinTable, ThreeBinTable}
TableFiles == Tables \cup {WithoutMetals(t) : t \in Tables}

(* The bands (observer-frame keV) a request is made with: lower and upper   *)
(* energies on, between and just outside the bin edges of the tables       *)
LowerEnergies == {I(e) : e \in {1000, 1998, 1999, 2000, 2500, 4000, 6000}}
UpperEnergies == {I(e) : e \in {2000, 2600, 3000, 4000, 4004, 4005, 6000}}

Redshifts == {I(z) : z \in 0..MaxRedshift}

-----------------------------------------------------------------------------
(* _get_data_file                                                          *)

None == "None"
SuppDataDir == "supp"
DataUrl == "http://yt-project.org/data"
TableTypes == {"cloudy", "apec"}

data_version(table_type) == IF table_type = "cloudy" THEN 2 ELSE 3

(* "%s_emissivity_v%d.h5" % (table_type, version) *)
FileName(table_type, version) == <<table_type, "_emissivity_v", version, ".h5">>

NoFile == <<"", "", 0, "">>

(* the directory the data file is looked for in *)
ResolveDirAlwaysSupp(data_dir) == IF data_dir = None THEN SuppDataDir ELSE data_dir

ResolveDir(data_dir) ==
    IF data_dir = None
    THEN (IF SuppDataDir \in dirs THEN SuppDataDir ELSE ".")
    ELSE data_dir

(* the os.path.exists calls made, in order *)
Probes(data_dir, data_path) ==
    (IF data_dir = None THEN <<[dir |-> SuppDataDir, file |-> NoFile]>> ELSE <<>>)
    \o <<[dir |-> data_path[1], file |-> data_path[2]]>>

_get_data_file(table_type, data_dir) ==
    LET data_file == FileName(table_type, data_version(table_type))
        data_path == <<ResolveDir(data_dir), data_file>>
    IN  IF data_path \notin files
        THEN [raised |-> "OSError",
              msg |-> <<"Failed to find emissivity data file ", data_file,
                        "! Please download from ", DataUrl>>,
              path |-> data_path,
              probes |-> Probes(data_dir, data_path)]
        ELSE [raised |-> "none", msg |-> <<>>, path |-> data_path,
              probes |-> Probes(data_dir, data_path)]

-----------------------------------------------------------------------------
(* XrayEmissivityIntegrator.__init__                                       *)

(* np.diff *)
Diff(ebin) == [k \in 1..(Len(ebin) - 1) |-> FSub(ebin[k + 1], ebin[k])]

(* .to("erg"): 1 keV = 1.602e-9 erg; ergs are counted in units of 1e-9 erg *)
(* and the factor is rounded to 8/5                                        *)
ToErg(x) == FMul(x, <<8, 5>>)

EmidKeV(ebin) == [k \in 1..(Len(ebin) - 1) |-> FMul(<<1, 2>>, FAdd(ebin[k + 1], ebin[k]))]

Emid(ebin) == [k \in 1..(Len(ebin) - 1) |-> ToErg(FMul(<<1, 2>>, FAdd(ebin[k + 1], ebin[k])))]

NoObject == [live |-> FALSE]

(* the datasets read from the file, in order, up to the first failure *)
DatasetsRead(in_file, use_metals) ==
    <<"log_T", "emissivity_primordial">>
    \o (IF "log_nH" \in DOMAIN in_file THEN <<"log_nH">> ELSE <<>>)
    \o (IF use_metals
        THEN (IF "emissivity_metals" \in DOMAIN in_file
              THEN <<"emissivity_metals", "E">> ELSE <<"emissivity_metals">>)
        ELSE <<"E">>)

XrayEmissivityIntegrator(table_type, redshift, data_dir, use_metals) ==
    LET found == _get_data_file(table_type, data_dir)
        in_file == h5
    IN  IF found.raised # "none"
        THEN [raised |-> found.raised, msg |-> found.msg, found |-> found,
              reads |-> <<>>, obj |-> NoObject]
        ELSE IF use_metals /\ "emissivity_metals" \notin DOMAIN in_file
        THEN [raised |-> "KeyError", msg |-> <<"emissivity_metals">>, found |-> found,
              reads |-> DatasetsRead(in_file, use_metals), obj |-> NoObject]
        ELSE [raised |-> "none", msg |-> <<>>, found |-> found,
              reads |-> DatasetsRead(in_file, use_metals),
              obj |-> [live |-> TRUE,
                       log_T |-> in_file.log_T,
                       emissivity_primordial |-> in_file.emissivity_primordial,
                       ebin |-> in_file.E,
                       dE |-> Diff(in_file.E),
                       emid |-> Emid(in_file.E),
                       redshift |-> redshift]
                      @@ (IF "log_nH" \in DOMAIN in_file
                          THEN [log_nH |-> in_file.log_nH] ELSE [x \in {} |-> 0])
                      @@ (IF use_metals
                          THEN [emissivity_metals |-> in_file.emissivity_metals]
                          ELSE [x \in {} |-> 0])]

-----------------------------------------------------------------------------
(* XrayEmissivityIntegrator.get_interpolator                               *)

DataTypes == {"primordial", "metals"}

(* f"emissivity_{data_type}" *)
AttrName(data_type) == IF data_type = "primordial" THEN "emissivity_primordial"
                       ELSE "emissivity_metals"

(* data[..., :] / self.emid.v : every bin's value over that bin's midpoint *)
PhotonData(data, emid) ==
    [c \in DOMAIN data |-> [k \in 1..Len(data[c]) |-> FDiv(data[c][k], emid[k])]]

(* YTQuantity(e, "keV") * (1.0 + self.redshift) *)
RestFrameObserver(e, redshift) == e

RestFrame(e, redshift) == FMul(e, FAdd(I(1), redshift))

(* the bounds test, relative to the requested energies as the code divides *)
BoundsViolatedEdgeRelative(ebin, e_min, e_max) ==
    \/ FLess(FDiv(FSub(e_min, ebin[1]), ebin[1]), <<-1, 1000>>)
    \/ FLess(<<1, 1000>>, FDiv(FSub(e_max, ebin[Len(ebin)]), ebin[Len(ebin)]))

BoundsViolated(ebin, e_min, e_max) ==
    \/ FLess(FDiv(FSub(e_min, ebin[1]), e_min), <<-1, 1000>>)
    \/ FLess(<<1, 1000>>, FDiv(FSub(e_max, ebin[Len(ebin)]), e_max))

(* np.digitize(x, bins) for increasing bins: i with bins[i-1] <= x < bins[i] *)
Digitize(x, bins) == Cardinality({k \in 1..Len(bins) : FLeq(bins[k], x)})

(* np.clip *)
Clip(v, lo, hi) == Min(Max(v, lo), hi)

(* s[a:b] for 0 <= a, b <= len(s) *)
PySlice(s, a, b) == SubSeq(s, a + 1, b)

(* my_dE[0] -= e_min - ebin[e_is]; my_dE[-1] -= ebin[e_ie] - e_max *)
ClipWidthsNoUpper(slice, ebin, e_is, e_ie, e_min, e_max) ==
    [slice EXCEPT ![1] = FSub(@, FSub(e_min, ebin[e_is + 1]))]

ClipWidthsAbsLower(slice, ebin, e_is, e_ie, e_min, e_max) ==
    LET first == [slice EXCEPT ![1] = FSub(@, e_min)]
    IN  [first EXCEPT ![Len(slice)] = FSub(@, FSub(ebin[e_ie + 1], e_max))]

ClipWidths(slice, ebin, e_is, e_ie, e_min, e_max) ==
    LET first == [slice EXCEPT ![1] = FSub(@, FSub(e_min, ebin[e_is + 1]))]
    IN  [first EXCEPT ![Len(slice)] = FSub(@, FSub(ebin[e_ie + 1], e_max))]

(* self.dE once the edge widths were adjusted: my_dE is a copy of the      *)
(* slice, so self.dE keeps its values                                      *)
dEAfterClipView(dE, e_is, e_ie, my_dE) ==
    [k \in 1..Len(dE) |-> IF k > e_is /\ k <= e_ie THEN my_dE[k - e_is] ELSE dE[k]]

dEAfterClip(dE, e_is, e_ie, my_dE) == dE

(* (data[..., e_is:e_ie] * my_dE).sum(axis=-1) *)
Integrate(data, e_is, my_dE) ==
    [c \in DOMAIN data |->
        FSum([k \in 1..Len(my_dE) |-> FMul(data[c][e_is + k], my_dE[k])])]

(* data.ndim: the grid axes and the energy axis *)
NDim(data) == Len(CHOOSE c \in DOMAIN data : TRUE) + 1

(* UnilinearFieldInterpolator / BilinearFieldInterpolator over log10 of    *)
(* the integrated surface, truncate=True                                   *)
MakeInterpolator(self, data, interp_data) ==
    IF NDim(data) = 2
    THEN [class |-> "UnilinearFieldInterpolator",
          table |-> [c \in DOMAIN interp_data |-> Log10(interp_data[c])],
          boundaries |-> <<self.log_T[1], self.log_T[Len(self.log_T)]>>,
          truncate |-> TRUE]
    ELSE [class |-> "BilinearFieldInterpolator",
          table |-> [c \in DOMAIN interp_data |-> Log10(interp_data[c])],
          boundaries |-> <<self.log_nH[1], self.log_nH[Len(self.log_nH)],
                           self.log_T[1], self.log_T[Len(self.log_T)]>>,
          truncate |-> TRUE]

NoInterpolator == [class |-> "none"]

Outcome(raised, self, lower, upper, rest_min, rest_max, e_is, e_ie, my_dE, interp_data, emiss, dE_after) ==
    [raised |-> raised, lower |-> lower, upper |-> upper,
     rest_min |-> rest_min, rest_max |-> rest_max, e_is |-> e_is, e_ie |-> e_ie,
     my_dE |-> my_dE, interp_data |-> interp_data, emiss |-> emiss,
     dE_after |-> dE_after]

get_interpolator(self, data_type, e_min, e_max, energy) ==
    IF AttrName(data_type) \notin DOMAIN self
    THEN Outcome("AttributeError", self, FNaN, FNaN, FNaN, FNaN, -1, -1, <<>>,
                 <<>>, NoInterpolator, self.dE)
    ELSE
    LET raw == self[AttrName(data_type)]
        data == IF ~energy THEN PhotonData(raw, self.emid) ELSE raw
        rest_min == RestFrame(e_min, self.redshift)
        rest_max == RestFrame(e_max, self.redshift)
        size == Len(self.ebin)
    IN  IF BoundsViolated(self.ebin, rest_min, rest_max)
        THEN Outcome("EnergyBoundsException", self, self.ebin[1], self.ebin[size],
                     rest_min, rest_max, -1, -1, <<>>, <<>>, NoInterpolator, self.dE)
        ELSE
        LET e_is == Clip(Digitize(rest_min, self.ebin) - 1, 0, size - 1)
            e_ie == Clip(Digitize(rest_max, self.ebin), 0, size - 1)
            slice == PySlice(self.dE, e_is, e_ie)
        IN  IF slice = <<>>
            THEN Outcome("IndexError", self, FNaN, FNaN, rest_min, rest_max,
                         e_is, e_ie, slice, <<>>, NoInterpolator, self.dE)
            ELSE
            LET my_dE == ClipWidths(slice, self.ebin, e_is, e_ie, rest_min, rest_max)
                interp_data == Integrate(data, e_is, my_dE)
            IN  Outcome("none", self, FNaN, FNaN, rest_min, rest_max, e_is, e_ie,
                        my_dE, interp_data, MakeInterpolator(self, data, interp_data),
                        dEAfterClip(self.dE, e_is, e_ie, my_dE))

-----------------------------------------------------------------------------
(* The integrator under band requests                                      *)

CloudyFile == FileName("cloudy", data_version("cloudy"))

Init ==
    \E t \in Tables, z \in Redshifts, use_metals \in BOOLEAN :
        /\ files = {<<".", CloudyFile>>}
        /\ dirs = {"."}
        /\ h5 = t
        /\ LET made == XrayEmissivityIntegrator("cloudy", z, ".", use_metals)
           IN  /\ made.raised = "none"
               /\ si = made.obj
               /\ built = made.obj
        /\ ret = [op |-> "__init__", raised |-> "none"]

GetInterpolator ==
    /\ si.live
    /\ \E data_type \in DataTypes, e_min \in LowerEnergies, e_max \in UpperEnergies,
          energy \in BOOLEAN :
          LET out == get_interpolator(si, data_type, e_min, e_max, energy)
          IN  /\ ret' = [op |-> "get_interpolator", data_type |-> data_type,
                         e_min |-> e_min, e_max |-> e_max, energy |-> energy] @@ out
              /\ si' = [si EXCEPT !.dE = out.dE_after]
    /\ UNCHANGED <<files, dirs, h5, built>>

Next == GetInterpolator

Spec == Init /\ [][Next]_vars

-----------------------------------------------------------------------------
(* Properties of get_interpolator, stated on the record of the last call   *)

Called == ret.op = "get_interpolator"

(* the data kind asked for is one the constructor loaded *)
Loaded == AttrName(ret.data_type) \in DOMAIN built

Tabulated == built[AttrName(ret.data_type)]
Edges == built.ebin
NBins == Len(built.ebin) - 1
FirstEdge == built.ebin[1]
LastEdge == built.ebin[Len(built.ebin)]
BandMin == FMul(ret.e_min, FAdd(I(1), built.redshift))
BandMax == FMul(ret.e_max, FAdd(I(1), built.redshift))
BandInside == FLeq(FirstEdge, BandMin) /\ FLess(BandMin, BandMax) /\ FLeq(BandMax, LastEdge)

FMin(a, b) == IF FLess(a, b) THEN a ELSE b
FMax(a, b) == IF FLess(a, b) THEN b ELSE a

(* length of [E[i], E[i+1]] intersected with the band *)
Overlap(i) ==
    FMax(FZero, FSub(FMin(BandMax, Edges[i + 1]), FMax(BandMin, Edges[i])))

(* C1: for a band with E[0] <= e_min < e_max <= E[N] the energy-weighted   *)
(* integral of every grid cell is the sum over all bins of the bin's value *)
(* times the length of the bin's intersection with the band.               *)
C1_PartialBinClipping ==
    (Called /\ Loaded /\ ret.energy /\ BandInside) =>
        /\ ret.raised = "none"
        /\ \A c \in DOMAIN Tabulated :
              ret.interp_data[c] =
                  FSum([i \in 1..NBins |-> FMul(Tabulated[c][i], Overlap(i))])

(* a band strictly inside one bin was integrated *)
C1_Witness ==
    /\ Called /\ Loaded /\ ret.energy /\ BandInside /\ ret.raised = "none"
    /\ \E i \in 1..NBins : FLess(Edges[i], BandMin) /\ FLess(BandMax, Edges[i + 1])
    /\ \E c \in DOMAIN Tabulated : Sgn(ret.interp_data[c]) > 0

(* a band covering two adjacent bins exactly was integrated *)
C1_WitnessTwoBins ==
    /\ Called /\ Loaded /\ ret.energy /\ ret.raised = "none"
    /\ \E i \in 1..(NBins - 1) : BandMin = Edges[i] /\ BandMax = Edges[i + 2]

(* C2 as claimed: EnergyBoundsException is raised exactly when the band    *)
(* leaves the table by more than 0.1% of the edge it passes, and carries   *)
(* the table's first and last edge.                                        *)
C2_ToleranceOfEdge ==
    (Called /\ Loaded) =>
        /\ ret.raised = "EnergyBoundsException" <=>
              \/ FLess(FMul(<<1, 1000>>, LastEdge), FSub(BandMax, LastEdge))
              \/ FLess(FMul(<<1, 1000>>, FirstEdge), FSub(FirstEdge, BandMin))
        /\ ret.raised = "EnergyBoundsException" =>
              ret.lower = FirstEdge /\ ret.upper = LastEdge

(* C2 amended: the tolerance is 0.1% of the requested rest-frame energy    *)
C2_ToleranceOfRequest ==
    (Called /\ Loaded) =>
        /\ ret.raised = "EnergyBoundsException" <=>
              \/ FLess(BandMax, FMul(I(1000), FSub(BandMax, LastEdge)))
              \/ FLess(BandMin, FMul(I(1000), FSub(FirstEdge, BandMin)))
        /\ ret.raised = "EnergyBoundsException" =>
              ret.lower = FirstEdge /\ ret.upper = LastEdge

(* the exception was raised for a band whose upper energy alone is out of  *)
(* tolerance, and carried the table's edges                                *)
C2_Witness ==
    /\ Called /\ Loaded
    /\ FLeq(FirstEdge, BandMin) /\ FLess(LastEdge, BandMax)
    /\ ret.raised = "EnergyBoundsException"
    /\ ret.lower = FirstEdge /\ ret.upper = LastEdge

(* a band reaching beyond both edges, within tolerance, was accepted *)
C2_WitnessWithin ==
    /\ Called /\ Loaded
    /\ FLess(BandMin, FirstEdge) /\ FLess(LastEdge, BandMax)
    /\ ret.raised = "none"

(* C3: an integrator with redshift z answers a band as an integrator with  *)
(* redshift 0 over the same table answers the band scaled by (1+z).        *)
C3_RedshiftConversion ==
    Called =>
        LET atZero == [built EXCEPT !.redshift = I(0)]
            out == get_interpolator(atZero, ret.data_type, BandMin, BandMax, ret.energy)
        IN  [k \in DOMAIN out |-> ret[k]] = out

C3_Witness ==
    /\ Called /\ Loaded /\ Sgn(built.redshift) > 0
    /\ ret.raised = "none" /\ ret.e_ie - ret.e_is > 1

C3_WitnessRaise ==
    /\ Called /\ Loaded /\ Sgn(built.redshift) > 0
    /\ ret.raised = "EnergyBoundsException"
    /\ ~BoundsViolated(Edges, ret.e_min, ret.e_max)

(* C7 as claimed: a one-bin table integrated over exactly its bin gives    *)
(* the raw tabulated value of every cell.                                  *)
C7_RawValue ==
    (Called /\ Loaded /\ ret.energy /\ NBins = 1
        /\ BandMin = FirstEdge /\ BandMax = LastEdge) =>
        /\ ret.raised = "none"
        /\ \A c \in DOMAIN Tabulated : ret.interp_data[c] = Tabulated[c][1]

(* C7 amended: it gives the tabulated value times the full bin width       *)
C7_ValueTimesWidth ==
    (Called /\ Loaded /\ ret.energy /\ NBins = 1
        /\ BandMin = FirstEdge /\ BandMax = LastEdge) =>
        /\ ret.raised = "none"
        /\ ret.my_dE = <<FSub(LastEdge, FirstEdge)>>
        /\ \A c \in DOMAIN Tabulated :
              ret.interp_data[c] = FMul(Tabulated[c][1], FSub(LastEdge, FirstEdge))

C7_Witness ==
    /\ Called /\ Loaded /\ ret.energy /\ NBins = 1
    /\ BandMin = FirstEdge /\ BandMax = LastEdge /\ ret.raised = "none"
    /\ \E c \in DOMAIN Tabulated : ret.interp_data[c] # Tabulated[c][1]

(* C8: whatever calls were made, the integrator equals the object its      *)
(* constructor returned, and a request is answered as that object answers  *)
(* it.                                                                     *)
C8_TableImmutable ==
    /\ si = built
    /\ built.dE = Diff(h5.E)
    /\ built.ebin = h5.E
    /\ Called =>
          LET out == get_interpolator(built, ret.data_type, ret.e_min, ret.e_max,
                                      ret.energy)
          IN  [k \in DOMAIN out |-> ret[k]] = out

(* a call adjusted the edge widths of its copy and left self.dE alone *)
C8_Witness ==
    /\ Called /\ ret.raised = "none"
    /\ ret.my_dE # PySlice(si.dE, ret.e_is, ret.e_ie)
    /\ si = built

(* C9: in photon-count mode every selected bin's value is divided by that  *)
(* bin's midpoint energy in erg before the clipped widths are applied; in  *)
(* energy-weighted mode the values are used as tabulated.                  *)
MidpointErg(i) == ToErg(FMul(<<1, 2>>, FAdd(Edges[i], Edges[i + 1])))

C9_PhotonCountMode ==
    (Called /\ Loaded /\ BandInside) =>
        /\ ret.raised = "none"
        /\ \A c \in DOMAIN Tabulated :
              ret.interp_data[c] =
                  FSum([k \in 1..Len(ret.my_dE) |->
                          FMul(IF ret.energy
                               THEN Tabulated[c][ret.e_is + k]
                               ELSE FDiv(Tabulated[c][ret.e_is + k],
                                         MidpointErg(ret.e_is + k)),
                               ret.my_dE[k])])

C9_Witness ==
    /\ Called /\ Loaded /\ BandInside /\ ~ret.energy /\ ret.raised = "none"
    /\ Len(ret.my_dE) > 1
    /\ ret.my_dE # PySlice(built.dE, ret.e_is, ret.e_ie)
    /\ \E c \in DOMAIN Tabulated : Sgn(ret.interp_data[c]) > 0

(* C10 as claimed: a band with e_min <= e_max that passes the bounds check *)
(* selects a non-empty range of bins and the call returns an interpolator. *)
C10_NonEmptySelection ==
    (Called /\ Loaded /\ FLeq(BandMin, BandMax)
        /\ ret.raised # "EnergyBoundsException") =>
        /\ ret.raised = "none"
        /\ 0 <= ret.e_is /\ ret.e_is < ret.e_ie /\ ret.e_ie <= NBins

-----------------------------------------------------------------------------
(* The data-file lookup and the constructor on a file system               *)

Directories == {".", SuppDataDir, "d1"}
DataDirs == {None, ".", "d1"}
FileNames == {FileName(t, v) : t \in TableTypes, v \in {2, 3}}

InitLookup ==
    /\ dirs \in {d \in SUBSET Directories : "." \in d}
    /\ files \in {f \in SUBSET (dirs \X FileNames) : Cardinality(f) <= MaxFiles}
    /\ h5 \in {OneBinTable, WithoutMetals(OneBinTable)}
    /\ si = NoObject
    /\ built = NoObject
    /\ ret = [op |-> "start", raised |-> "none"]

GetDataFile ==
    /\ \E table_type \in TableTypes, data_dir \in DataDirs :
          ret' = [op |-> "_get_data_file", table_type |-> table_type,
                  data_dir |-> data_dir, reads |-> <<>>]
                 @@ _get_data_file(table_type, data_dir)
    /\ UNCHANGED <<files, dirs, h5, si, built>>

Construct ==
    /\ \E table_type \in TableTypes, redshift \in Redshifts, data_dir \in DataDirs,
          use_metals \in BOOLEAN :
          LET made == XrayEmissivityIntegrator(table_type, redshift, data_dir, use_metals)
          IN  /\ ret' = [op |-> "__init__", table_type |-> table_type,
                         data_dir |-> data_dir, use_metals |-> use_metals,
                         raised |-> made.raised, msg |-> made.msg,
                         path |-> made.found.path, probes |-> made.found.probes,
                         reads |-> made.reads]
              /\ si' = IF made.raised = "none" THEN made.obj ELSE si
              /\ built' = IF made.raised = "none" THEN made.obj ELSE built
    /\ UNCHANGED <<files, dirs, h5>>

NextLookup == GetDataFile \/ Construct

SpecLookup == InitLookup /\ [][NextLookup]_vars

LookedUp == ret.op \in {"_get_data_file", "__init__"}

(* the path the claim names *)
ExpectedPath ==
    <<IF ret.data_dir # None THEN ret.data_dir
      ELSE IF SuppDataDir \in dirs THEN SuppDataDir ELSE ".",
      <<ret.table_type, "_emissivity_v", IF ret.table_type = "cloudy" THEN 2 ELSE 3,
        ".h5">>>>

FilesProbed ==
    {<<ret.probes[k].dir, ret.probes[k].file>> :
        k \in {j \in 1..Len(ret.probes) : ret.probes[j].file # NoFile}}

C4_WitnessFound ==
    /\ ret.op = "__init__" /\ ret.raised = "none" /\ ret.reads # <<>>
    /\ ret.data_dir = None /\ SuppDataDir \notin dirs
    /\ ret.path = <<".", FileName("apec", 3)>>

-----------------------------------------------------------------------------
(* calculate_xray_emissivity                                               *)

RECURSIVE PowerOfTen(_)
PowerOfTen(k) == IF k = 0 THEN 1 ELSE 10 * PowerOfTen(k - 1)

RECURSIVE ExponentOfTen(_)
ExponentOfTen(n) == IF n < 10 THEN 0 ELSE 1 + ExponentOfTen(n \div 10)

(* 10**x for an integral x: overflows to inf above the float64 range *)
TenTo(x) ==
    IF IsNaN(x) THEN FNaN
    ELSE IF IsInf(x) THEN (IF Sgn(x) > 0 THEN FInf ELSE FZero)
    ELSE IF x[1] > 308 THEN FInf
    ELSE IF x[1] >= 0 THEN I(PowerOfTen(x[1]))
    ELSE <<1, PowerOfTen(-x[1])>>

(* np.log10 of a temperature that is negative, zero or a power of ten *)
Log10Number(x) ==
    IF IsNaN(x) \/ Sgn(x) < 0 THEN FNaN
    ELSE IF Sgn(x) = 0 THEN FNegInf
    ELSE IF IsInf(x) THEN FInf
    ELSE I(ExponentOfTen(x[1]))

(* the grid node a coordinate is answered from: queries are on a node or   *)
(* outside the grid, where truncate=True answers from the boundary node    *)
Node(x, lo, hi, n) == IF FLeq(hi, x) THEN n ELSE 1

LNaN == [kind |-> "nan", arg |-> FZero]

(* emiss(dd) for cell j of the input *)
Evaluate(emiss, dd, j) ==
    IF emiss.class = "UnilinearFieldInterpolator"
    THEN LET x == dd.log_T[j]
             n == Cardinality({c[1] : c \in DOMAIN emiss.table})
         IN  IF IsNaN(x) THEN LNaN
             ELSE emiss.table[<<Node(x, emiss.boundaries[1], emiss.boundaries[2], n)>>]
    ELSE LET x == dd.log_nH[j]
             y == dd.log_T[j]
             nx == Cardinality({c[1] : c \in DOMAIN emiss.table})
             ny == Cardinality({c[2] : c \in DOMAIN emiss.table})
         IN  IF IsNaN(x) \/ IsNaN(y) THEN LNaN
             ELSE emiss.table[<<Node(x, emiss.boundaries[1], emiss.boundaries[2], nx),
                                Node(y, emiss.boundaries[3], emiss.boundaries[4], ny)>>]

(* the fields of the cell data read at lines 199-205, in order, up to the  *)
(* first one that is missing                                               *)
FieldsRead(data, temperature_model) ==
    LET order == <<"lognH", temperature_model, "gas_metallicity_host">>
        missing == {k \in 1..3 : order[k] \notin DOMAIN data}
        last == IF missing = {} THEN 3 ELSE CHOOSE k \in missing : \A m \in missing : k <= m
    IN  SubSeq(order, 1, last)

Failure(raised, fields, reads) ==
    [raised |-> raised, fields |-> fields, reads |-> reads, returned |-> "nothing",
     interpolated |-> <<>>, norm_field |-> <<>>, value |-> <<>>]

calculate_xray_emissivity(data, temperature_model, e_min, e_max, use_metallicity, redshift, table_type, data_dir) ==
    LET fields == FieldsRead(data, temperature_model)
    IN
    IF table_type # "cloudy"
    THEN [Failure("none", <<>>, <<>>) EXCEPT !.returned = "None"]
    ELSE IF fields[Len(fields)] \notin DOMAIN data
    THEN Failure("KeyError", fields, <<>>)
    ELSE
    LET lognH == data.lognH
        cells == 1..Len(lognH)
        nH == [j \in cells |-> TenTo(lognH[j])]
        norm_field == [j \in cells |-> FMul(nH[j], nH[j])]
        logT == [j \in cells |-> Log10Number(data[temperature_model][j])]
        gas_metallicity_Zsun == data.gas_metallicity_host
        made == XrayEmissivityIntegrator(table_type, redshift, data_dir, TRUE)
    IN
    IF made.raised # "none"
    THEN Failure(made.raised, fields, made.reads)
    ELSE
    LET my_si == made.obj
        em_0 == get_interpolator(my_si, "primordial", e_min, e_max, TRUE)
        emp_0 == get_interpolator(my_si, "primordial", e_min, e_max, FALSE)
        em_Z == get_interpolator(my_si, "metals", e_min, e_max, TRUE)
        emp_Z == get_interpolator(my_si, "metals", e_min, e_max, FALSE)
    IN
    IF em_0.raised # "none" THEN Failure(em_0.raised, fields, made.reads)
    ELSE IF emp_0.raised # "none" THEN Failure(emp_0.raised, fields, made.reads)
    ELSE IF use_metallicity /\ em_Z.raised # "none"
    THEN Failure(em_Z.raised, fields, made.reads)
    ELSE IF use_metallicity /\ emp_Z.raised # "none"
    THEN Failure(emp_Z.raised, fields, made.reads)
    ELSE
    LET dd == [log_nH |-> lognH, log_T |-> logT]
        primordial == [j \in cells |-> Power10(Evaluate(em_0.emiss, dd, j))]
        my_emissivity ==
            IF use_metallicity
            THEN [j \in cells |->
                    FAdd(primordial[j],
                         FMul(gas_metallicity_Zsun[j],
                              Power10(Evaluate(em_Z.emiss, dd, j))))]
            ELSE primordial
        zeroed == [j \in cells |-> IF IsNaN(my_emissivity[j]) THEN FZero
                                   ELSE my_emissivity[j]]
    IN  [raised |-> "none", fields |-> fields, reads |-> made.reads,
         returned |-> "array", interpolated |-> my_emissivity,
         norm_field |-> norm_field,
         value |-> [j \in cells |-> FMul(norm_field[j], zeroed[j])]]

(* The per-cell inputs: log density, temperature, metallicity *)
LogDensities == {FNaN, I(-1), I(0), I(400)}
Temperatures == {I(-1), I(1000000), I(10000000)}
Metallicities == {FNaN, I(1)}
PhysicalCell == [lognH |-> I(0), T |-> I(1000000), Z |-> I(1)]
Cells == [lognH : LogDensities, T : Temperatures, Z : Metallicities]

CellData(c, with_metallicity) ==
    [lognH |-> <<c.lognH, PhysicalCell.lognH>>,
     Tvir |-> <<c.T, PhysicalCell.T>>,
     T_DF |-> <<PhysicalCell.T, c.T>>]
    @@ (IF with_metallicity
        THEN [gas_metallicity_host |-> <<c.Z, PhysicalCell.Z>>]
        ELSE [x \in {} |-> 0])

Datas == {CellData(c, TRUE) : c \in Cells}
         \cup {CellData(c, FALSE) : c \in {d \in Cells : d.Z = I(1)}}

Bands == {<<I(2000), I(3000)>>, <<I(2500), I(2600)>>, <<I(4000), I(4005)>>}

InitField ==
    /\ dirs = {"."}
    /\ files \in {{}, {<<".", CloudyFile>>}}
    /\ h5 \in {OneBinTable, TwoBinTable, WithoutMetals(OneBinTable),
               WithoutMetals(TwoBinTable)}
    /\ si = NoObject
    /\ built = NoObject
    /\ \E data \in Datas, temperature_model \in {"Tvir", "T_DF"}, band \in Bands,
          use_metallicity \in BOOLEAN, redshift \in Redshifts,
          table_type \in TableTypes :
          ret = [op |-> "call", raised |-> "none", data |-> data,
                 temperature_model |-> temperature_model,
                 e_min |-> band[1], e_max |-> band[2],
                 use_metallicity |-> use_metallicity, redshift |-> redshift,
                 table_type |-> table_type, data_dir |-> "."]

Calculate ==
    /\ ret.op = "call"
    /\ ret' = [[k \in DOMAIN ret \ {"raised"} |-> ret[k]]
                  EXCEPT !.op = "calculate_xray_emissivity"]
              @@ calculate_xray_emissivity(ret.data, ret.temperature_model, ret.e_min,
                                           ret.e_max, ret.use_metallicity, ret.redshift,
                                           ret.table_type, ret.data_dir)
    /\ UNCHANGED <<files, dirs, h5, si, built>>

NextField == Calculate

SpecField == InitField /\ [][NextField]_vars

Calculated == ret.op = "calculate_xray_emissivity"

(* C5 as claimed: a cell whose interpolated emissivity is NaN is returned   *)
(* as zero, whatever its density.                                           *)
C5_NaNZeroed ==
    (Calculated /\ ret.returned = "array") =>
        \A j \in 1..Len(ret.interpolated) :
            IsNaN(ret.interpolated[j]) => ret.value[j] = FZero

(* C6 as claimed: without use_metallicity neither the metallicity field    *)
(* nor the emissivity_metals dataset is read, so neither can be missed.    *)
C6_MetalsOnlyWhenRequested ==
    (Calculated /\ ~ret.use_metallicity) =>
        /\ \A k \in 1..Len(ret.fields) : ret.fields[k] # "gas_metallicity_host"
        /\ \A k \in 1..Len(ret.reads) : ret.reads[k] # "emissivity_metals"
        /\ ret.raised # "KeyError"

====
